---------------------------- MODULE Spec2Model ----------------------------
(***************************************************************************)
(* A model of build_exact (src/src/dag.rs, src/src/dag_walker.rs,          *)
(* src/src/buildinfo.rs): construction of the build DAG from a BuildInfo,  *)
(* resolution of the targets into the set of commands to run, and the      *)
(* serial scheduler that runs them.                                        *)
(*                                                                         *)
(* Conventions.  A path is the sequence of its characters, so that         *)
(* Path::is_absolute and Path::iter are computed and not assumed.  Rust's  *)
(* indices are 0-based; here node indices, command indices and input       *)
(* indices are all 1-based (index k of the source is k + 1 here), which    *)
(* keeps their order.  The env map of a command is a passive record field  *)
(* no modelled decision reads and is left out.                             *)
(***************************************************************************)
EXTENDS Integers, Sequences, FiniteSets, TLC

VARIABLES
    info,                            \* the BuildInfo handed to BuildDag::new
    args,                            \* the target strings Opt::from_args has still to parse
    targets,                         \* the target list handed to build()
    no_sandbox,                      \* Opt.no_sandbox, handed to build()
    fs,                              \* the filesystem: path -> mtime state
    pc,                              \* where main() is
    error,                           \* the anyhow error / panic that ended the run
    dag,                             \* BuildDag.dag: [nodes, edges]
    output_file_generators,          \* BuildDag.output_file_generators
    input_file_consumers,            \* BuildDag.input_file_consumers
    test_names,                      \* BuildDag.test_names
    build_command_node_index,        \* BuildDag.build_command_node_index
    test_command_node_index,         \* BuildDag.test_command_node_index
    commands_to_run,                 \* build(): the selected set
    command_dependencies_remaining,  \* build(): the pending map
    ready_to_run,                    \* build(): the ready heap
    log,                             \* history: one record per dispatched node
    walk,                            \* walk_recursively: its arguments
    pending,                         \* walk_recursively: the pending stack
    calls                            \* history: one record per call of func

vars == <<info, args, targets, no_sandbox, fs, pc, error, dag, output_file_generators,
          input_file_consumers, test_names, build_command_node_index,
          test_command_node_index, commands_to_run,
          command_dependencies_remaining, ready_to_run, log, walk, pending, calls>>

-----------------------------------------------------------------------------
(* Bounds of the model. *)

\* Number of build commands of a description.
NumBuild == 2
\* Number of tests of a description.
NumTests == 1
\* Number of distinct file paths the descriptions of Spec draw from.
NumFiles == 3
\* Longest inputs list of a command or test.
MaxInputs == 2
\* Longest outputs list of a build command in SpecRun.
MaxOutputs == 2
\* Longest target list of Spec.
MaxTargets == 1
\* Longest target list of SpecResolve.
MaxTargetsResolve == 2
\* Largest initial mtime (seconds after the Unix epoch).
MaxMtime == 1
\* Earliest initial mtime in SpecRun, in seconds before the Unix epoch.
PreEpoch == 2
\* Longest path drawn in SpecPath, in characters.
MaxPathLen == 3
\* Most arguments after the program name in a command line of SpecArgv.
MaxArgs == 2
\* Number of tests of a description of SpecMulti.
NumTestsMulti == 2
\* Longest inputs list of a command or test in SpecMulti.
MaxInputsMulti == 1
\* Longest target list of SpecMulti.
MaxTargetsMulti == 2
\* Longest inputs list of a command or test in SpecNew.
MaxInputsNew == 1
\* Most target strings on a command line of SpecParse.
MaxTargetStrings == 1
\* Most characters after the leading word of a target string of SpecParse.
MaxArgLen == 4
\* The nodes of the graphs walk_recursively is run on alone.
NumWalkNodes == 3
\* The edges of those graphs.
MaxWalkEdges == 3

-----------------------------------------------------------------------------
(* Generic helpers. *)

Range(s) == {s[i] : i \in DOMAIN s}

SeqsUpTo(S, n) == UNION {[1..k -> S] : k \in 0..n}

RECURSIVE Flatten(_)
Flatten(ss) == IF ss = <<>> THEN <<>> ELSE Head(ss) \o Flatten(Tail(ss))

EmptyMap == [x \in {} |-> 0]

MapRemove(m, k) == [x \in DOMAIN m \ {k} |-> m[x]]

Max2(a, b) == IF a >= b THEN a ELSE b

-----------------------------------------------------------------------------
(* std::path::Path on Unix, as used by check_path. *)

\* Path::is_absolute: the path has a root.
IsAbsolute(path) == Len(path) > 0 /\ path[1] = "/"

\* The pieces of the path between its separators, empty ones included.
RECURSIVE SplitOnSlash(_, _)
SplitOnSlash(path, cur) ==
    IF path = <<>> THEN <<cur>>
    ELSE IF Head(path) = "/" THEN <<cur>> \o SplitOnSlash(Tail(path), <<>>)
    ELSE SplitOnSlash(Tail(path), Append(cur, Head(path)))

\* Path::iter / Path::components: the root first; repeated separators are
\* dropped; a "." piece is dropped unless it starts a path that has no
\* root; ".." is kept.
PathIter(path) ==
    LET pieces == SplitOnSlash(path, <<>>)
        Keep(i) == /\ pieces[i] # <<>>
                   /\ (pieces[i] = <<".">> => (i = 1 /\ ~IsAbsolute(path)))
        RECURSIVE Collect(_)
        Collect(i) == IF i > Len(pieces) THEN <<>>
                      ELSE IF Keep(i) THEN <<pieces[i]>> \o Collect(i + 1)
                      ELSE Collect(i + 1)
    IN (IF IsAbsolute(path) THEN << <<"/">> >> ELSE <<>>) \o Collect(1)

\* check_path: "ok" when the path is accepted, otherwise the error.
check_path(path) ==
    IF ~IsAbsolute(path) THEN "Path must be absolute"
    ELSE IF \E i \in DOMAIN PathIter(path) :
                PathIter(path)[i] \in {<<".", ".">>, <<".">>}
         THEN "Path must be canonical (no .. or .)"
         ELSE "ok"

\* The paths ensure_absolute_normalised_paths checks, in its order: per build
\* command the inputs, the outputs and the working dir, then the sandboxed
\* dirs.  The tests' paths are not among them.
CheckedPaths(bi) ==
    Flatten([i \in DOMAIN bi.commands |->
                bi.commands[i].inputs \o bi.commands[i].outputs
                    \o <<bi.commands[i].working_dir>>])
        \o bi.sandboxed_dirs

ensure_absolute_normalised_paths(bi) ==
    LET paths == CheckedPaths(bi)
        bad == {i \in DOMAIN paths : check_path(paths[i]) # "ok"}
    IN IF bad = {} THEN "ok"
       ELSE check_path(paths[CHOOSE i \in bad : \A j \in bad : i <= j])


-----------------------------------------------------------------------------
(* impl FromStr for Target.  A target string is the sequence of its        *)
(* characters, like a path.                                                *)

\* str::rsplit_once(':'): the split at the last colon.
RECURSIVE rsplit_once(_, _)
rsplit_once(s, after) ==
    IF s = <<>> THEN [found |-> FALSE, before |-> <<>>, after |-> after]
    ELSE IF s[Len(s)] = ":"
    THEN [found |-> TRUE, before |-> SubSeq(s, 1, Len(s) - 1), after |-> after]
    ELSE rsplit_once(SubSeq(s, 1, Len(s) - 1), <<s[Len(s)]>> \o after)

\* The split at the last colon, in the shape of SplitOnce.
SplitOnceAtLast(s) == rsplit_once(s, <<>>)

\* str::split_once(':'): the scan from the left stops at the first colon;
\* `before` holds the characters passed so far.
RECURSIVE split_once(_, _)
split_once(s, before) ==
    IF s = <<>> THEN [found |-> FALSE, before |-> before, after |-> <<>>]
    ELSE IF Head(s) = ":"
    THEN [found |-> TRUE, before |-> before, after |-> Tail(s)]
    ELSE split_once(Tail(s), Append(before, Head(s)))

\* s.split_once(':').unwrap_or((s, "")) as [found, before, after].
SplitOnce(s) ==
    LET r == split_once(s, <<>>)
    IN IF r.found THEN r ELSE [found |-> FALSE, before |-> s, after |-> <<>>]

\* The words from_str matches on.
OutputAllWord == <<"o", "u", "t", "p", "u", "t", "_", "a", "l", "l">>

TestAllWord == <<"t", "e", "s", "t", "_", "a", "l", "l">>

OutputWord == <<"o", "u", "t", "p", "u", "t">>

TestWord == <<"t", "e", "s", "t">>

OutputDependenciesWord == <<"o", "u", "t", "p", "u", "t", "_", "d", "e", "p", "e", "n", "d", "e", "n", "c", "i", "e", "s">>

TestDependenciesWord == <<"t", "e", "s", "t", "_", "d", "e", "p", "e", "n", "d", "e", "n", "c", "i", "e", "s">>

\* from_str: [err, target].
from_str(s) ==
    LET r == SplitOnce(s)
        kind == r.before
        arg == r.after
    IN IF kind = OutputAllWord /\ arg = <<>>
       THEN [err |-> "ok", target |-> [kind |-> "AllOutputs", arg |-> <<>>]]
       ELSE IF kind = TestAllWord /\ arg = <<>>
       THEN [err |-> "ok", target |-> [kind |-> "AllTests", arg |-> <<>>]]
       ELSE IF kind = OutputWord
       THEN [err |-> "ok", target |-> [kind |-> "Output", arg |-> arg]]
       ELSE IF kind = TestWord
       THEN [err |-> "ok", target |-> [kind |-> "Test", arg |-> arg]]
       ELSE IF kind = OutputDependenciesWord
       THEN [err |-> "ok", target |-> [kind |-> "OutputsThatDependOnFile", arg |-> arg]]
       ELSE IF kind = TestDependenciesWord
       THEN [err |-> "ok", target |-> [kind |-> "TestsThatDependOnFile", arg |-> arg]]
       ELSE [err |-> "Unknown option", target |-> [kind |-> "none", arg |-> <<>>]]

-----------------------------------------------------------------------------
(* petgraph::Graph: nodes carry a CommandIndex, edges an InputFileIndex. *)

EmptyGraph == [nodes |-> <<>>, edges |-> <<>>]

BuildCommandIndex(i) == [kind |-> "build", index |-> i]

TestCommandIndex(i) == [kind |-> "test", index |-> i]

\* Graph::neighbors_directed: one entry per edge (parallel edges repeat the
\* neighbour), the most recently added edge first.
Neighbors(g, node, direction) ==
    LET RECURSIVE Scan(_)
        Scan(k) ==
            IF k = 0 THEN <<>>
            ELSE LET e == g.edges[k] IN
                 IF direction = "Outgoing" /\ e.source = node
                 THEN <<e.target>> \o Scan(k - 1)
                 ELSE IF direction = "Incoming" /\ e.target = node
                 THEN <<e.source>> \o Scan(k - 1)
                 ELSE Scan(k - 1)
    IN Scan(Len(g.edges))

\* The nodes reachable from a node of `from` along at least one edge.
ReachableByEdges(g, from) ==
    LET Step(S) == {g.edges[k].target : k \in {j \in DOMAIN g.edges : g.edges[j].source \in S}}
        RECURSIVE Close(_)
        Close(S) == LET T == S \cup Step(S) IN IF T = S THEN S ELSE Close(T)
    IN Close(Step(from))

\* A cycle check that misses the self loops: two different nodes reach each
\* other.
is_cyclic_between_nodes(g) ==
    \E n, m \in DOMAIN g.nodes :
        n # m /\ m \in ReachableByEdges(g, {n}) /\ n \in ReachableByEdges(g, {m})

\* petgraph::algo::is_cyclic_directed: some node reaches itself (a self loop
\* included).
is_cyclic_directed(g) ==
    \E n \in DOMAIN g.nodes : n \in ReachableByEdges(g, {n})

ensure_not_cyclic(g) ==
    IF is_cyclic_directed(g) THEN "Build graph is cyclic" ELSE "ok"

-----------------------------------------------------------------------------
(* BuildDag::new *)

\* The outputs of all build commands, in the order new() inserts them.
AllOutputsInOrder(bi) ==
    Flatten([i \in DOMAIN bi.commands |->
                [k \in DOMAIN bi.commands[i].outputs |->
                    [path |-> bi.commands[i].outputs[k], node |-> i]]])

\* A duplicate check that looks at one command at a time.
HasDuplicateOutputInOneCommand(bi) ==
    \E c \in DOMAIN bi.commands : \E i, j \in DOMAIN bi.commands[c].outputs :
        i < j /\ bi.commands[c].outputs[i] = bi.commands[c].outputs[j]

\* The first loop of new(): the insert fails on a path already present.
HasDuplicateOutput(bi) ==
    LET outs == AllOutputsInOrder(bi)
    IN \E i, j \in DOMAIN outs : i < j /\ outs[i].path = outs[j].path

OutputFileGenerators(bi) ==
    LET outs == AllOutputsInOrder(bi)
    IN [p \in {outs[k].path : k \in DOMAIN outs} |->
            outs[CHOOSE k \in DOMAIN outs : outs[k].path = p].node]

\* Edges added once per generator: an input whose generator already feeds
\* the command through an earlier input adds no edge.
InputEdgesOncePerGenerator(ofg, node_index, inputs) ==
    Flatten([input_index \in DOMAIN inputs |->
                IF /\ inputs[input_index] \in DOMAIN ofg
                   /\ \A j \in 1..(input_index - 1) :
                         inputs[j] \in DOMAIN ofg => ofg[inputs[j]] # ofg[inputs[input_index]]
                THEN <<[source |-> ofg[inputs[input_index]],
                        target |-> node_index,
                        weight |-> input_index]>>
                ELSE <<>>])

\* The edges and consumer records one command contributes: for every input,
\* in order, an edge from its generator (if it has one) tagged with the
\* input's index.
InputEdges(ofg, node_index, inputs) ==
    Flatten([input_index \in DOMAIN inputs |->
                IF inputs[input_index] \in DOMAIN ofg
                THEN <<[source |-> ofg[inputs[input_index]],
                        target |-> node_index,
                        weight |-> input_index]>>
                ELSE <<>>])

InputUses(node_index, inputs) ==
    [input_index \in DOMAIN inputs |->
        [path |-> inputs[input_index], node |-> node_index]]

\* BuildDag::new with `names` the order HashMap::keys() yields the test
\* names in.  The result carries err = "ok" and the BuildDag, or the error.
BuildDagNew(bi, names) ==
    LET nb == Len(bi.commands)
        nt == Len(names)
        ofg == OutputFileGenerators(bi)
        bcni == [i \in 1..nb |-> i]
        tcni == [i \in 1..nt |-> nb + i]
        nodes == [n \in 1..(nb + nt) |->
                     IF n <= nb THEN BuildCommandIndex(n)
                     ELSE TestCommandIndex(n - nb)]
        edges ==
            Flatten([i \in 1..nb |-> InputEdges(ofg, bcni[i], bi.commands[i].inputs)])
            \o Flatten([i \in 1..nt |-> InputEdges(ofg, tcni[i], bi.tests[names[i]].inputs)])
        uses ==
            Flatten([i \in 1..nb |-> InputUses(bcni[i], bi.commands[i].inputs)])
            \o Flatten([i \in 1..nt |-> InputUses(tcni[i], bi.tests[names[i]].inputs)])
        UsersOf(p) ==
            LET RECURSIVE Pick(_)
                Pick(k) == IF k > Len(uses) THEN <<>>
                           ELSE IF uses[k].path = p THEN <<uses[k].node>> \o Pick(k + 1)
                           ELSE Pick(k + 1)
            IN Pick(1)
        ifc == [p \in {uses[k].path : k \in DOMAIN uses} |-> UsersOf(p)]
        g == [nodes |-> nodes, edges |-> edges]
        pathErr == ensure_absolute_normalised_paths(bi)
        err == IF pathErr # "ok" THEN pathErr
               ELSE IF HasDuplicateOutput(bi)
               THEN "File is specified as the output of more than one command."
               ELSE ensure_not_cyclic(g)
    IN [err |-> err, dag |-> g, output_file_generators |-> ofg,
        input_file_consumers |-> ifc, test_names |-> names,
        build_command_node_index |-> bcni, test_command_node_index |-> tcni]

\* The orders HashMap::keys() may yield the test names in.
KeyOrders(S) ==
    {s \in [1..Cardinality(S) -> S] : \A i, j \in DOMAIN s : i # j => s[i] # s[j]}


-----------------------------------------------------------------------------
(* dag_walker.rs and BuildDag::add_target_commands *)

\* The BuildDag as build() sees it.
Self ==
    [dag |-> dag, output_file_generators |-> output_file_generators,
     input_file_consumers |-> input_file_consumers, test_names |-> test_names,
     build_command_node_index |-> build_command_node_index,
     test_command_node_index |-> test_command_node_index]

RECURSIVE walk_recursively(_, _, _, _, _)

\* A closure that inserts and never lets the walk go on.
InsertVisitAndStop(node_index, to) ==
    [go |-> FALSE, st |-> to \cup {node_index}]

\* The closure |node_index| to.insert(node_index).
InsertVisit(node_index, to) ==
    [go |-> node_index \notin to, st |-> to \cup {node_index}]

\* The closure of the OutputsThatDependOnFile arm: a build node not yet in
\* `to` is inserted, the incoming walk is started at it, and the outgoing walk
\* goes on; a build node already in `to` and every test node prune.
OutputsVisit(g, outgoing_node_index, to) ==
    IF g.nodes[outgoing_node_index].kind = "build"
    THEN IF outgoing_node_index \notin to
         THEN [go |-> TRUE,
               st |-> walk_recursively(g, outgoing_node_index, "Incoming", "insert",
                                       to \cup {outgoing_node_index})]
         ELSE [go |-> FALSE, st |-> to]
    ELSE [go |-> FALSE, st |-> to]

\* The closure of the TestsThatDependOnFile arm: a build node prunes, a test
\* node is recorded and the walk goes on through it.
TestsVisit(g, outgoing_node_index, tests_to_run) ==
    IF g.nodes[outgoing_node_index].kind = "build"
    THEN [go |-> FALSE, st |-> tests_to_run]
    ELSE [go |-> TRUE, st |-> tests_to_run \cup {outgoing_node_index}]

\* A call of the closure `func` of a walk: `st` is the state the closure
\* captured (the set it inserts into); the result is [go, st], what the
\* closure returns and its state afterwards.
CallFunc(g, func, node_index, st) ==
    CASE func = "insert" -> InsertVisit(node_index, st)
      [] func = "outputs" -> OutputsVisit(g, node_index, st)
      [] func = "tests" -> TestsVisit(g, node_index, st)

\* dag_walker.rs, walk_recursively: the pending stack starts with the start
\* node; the last node is popped, `func` is called on it, and its neighbours
\* are pushed if the call returned true.  The result is the closure's state
\* at the end.
walk_recursively(g, starting_node_index, direction, func, st0) ==
    LET RECURSIVE Loop(_, _)
        Loop(stack, st) ==
            IF stack = <<>> THEN st
            ELSE LET node_index == stack[Len(stack)]
                     rest == SubSeq(stack, 1, Len(stack) - 1)
                     r == CallFunc(g, func, node_index, st)
                 IN IF r.go
                    THEN Loop(rest \o Neighbors(g, node_index, direction), r.st)
                    ELSE Loop(rest, r.st)
    IN Loop(<<starting_node_index>>, st0)

\* The pending stack after a call of `func` on the popped node: all its
\* neighbours are pushed, whatever the call returned.
PendingAfterAnyCall(rest, g, node_index, direction, go) ==
    rest \o Neighbors(g, node_index, direction)

\* The pending stack after a call of `func` on the popped node: its
\* neighbours are pushed when the call returned true.
PendingAfter(rest, g, node_index, direction, go) ==
    IF go THEN rest \o Neighbors(g, node_index, direction) ELSE rest

\* The walk from the first node of `starts` only.
WalkIncomingFromFirst(g, starts, to) ==
    IF starts = <<>> THEN to
    ELSE walk_recursively(g, starts[1], "Incoming", "insert", to)

\* walk_recursively(.., Direction::Incoming, |n| to.insert(n)) from each node
\* of `starts` in turn.
WalkIncomingFromEach(g, starts, to) ==
    LET RECURSIVE Each(_, _)
        Each(k, acc) ==
            IF k > Len(starts) THEN acc
            ELSE Each(k + 1, walk_recursively(g, starts[k], "Incoming", "insert", acc))
    IN Each(1, to)

\* A set of nodes as a sequence (the iteration order of a HashSet; the walks
\* fed from it only insert into one set, so the order does not show).
RECURSIVE SetToSeq(_)
SetToSeq(S) ==
    IF S = {} THEN <<>>
    ELSE LET m == CHOOSE x \in S : \A y \in S : x <= y
         IN <<m>> \o SetToSeq(S \ {m})

\* Vec::iter().position(): the first index holding `x`, 0 when none does.
Position(s, x) ==
    IF \E i \in DOMAIN s : s[i] = x
    THEN CHOOSE i \in DOMAIN s : s[i] = x /\ \A j \in DOMAIN s : s[j] = x => i <= j
    ELSE 0

\* Every node of the graph, build or test.
AllNodes(g) == DOMAIN g.nodes

\* The nodes the AllOutputs arm inserts: the build nodes among
\* node_references().
AllBuildNodes(g) == {n \in DOMAIN g.nodes : g.nodes[n].kind = "build"}

\* add_target_commands(target, to): [err, to].
add_target_commands(bd, target, to) ==
    LET g == bd.dag IN
    CASE target.kind = "Output" ->
            IF target.arg \notin DOMAIN bd.output_file_generators
            THEN [err |-> "No command generates output", to |-> to]
            ELSE [err |-> "ok",
                  to |-> walk_recursively(g, bd.output_file_generators[target.arg],
                                          "Incoming", "insert", to)]
      [] target.kind = "OutputsThatDependOnFile" ->
            IF target.arg \notin DOMAIN bd.input_file_consumers
            THEN [err |-> "No command use file", to |-> to]
            ELSE LET consumer_nodes == bd.input_file_consumers[target.arg]
                     RECURSIVE Each(_, _)
                     Each(k, acc) ==
                         IF k > Len(consumer_nodes) THEN acc
                         ELSE Each(k + 1, walk_recursively(g, consumer_nodes[k],
                                                           "Outgoing", "outputs", acc))
                 IN [err |-> "ok", to |-> Each(1, to)]
      [] target.kind = "AllOutputs" ->
            [err |-> "ok",
             to |-> to \cup AllBuildNodes(g)]
      [] target.kind = "Test" ->
            LET test_command_index == Position(bd.test_names, target.arg) IN
            IF test_command_index = 0
            THEN [err |-> "Test not found", to |-> to]
            ELSE [err |-> "ok",
                  to |-> walk_recursively(g, bd.test_command_node_index[test_command_index],
                                          "Incoming", "insert", to)]
      [] target.kind = "TestsThatDependOnFile" ->
            IF target.arg \notin DOMAIN bd.output_file_generators
            THEN [err |-> "No command generates output", to |-> to]
            ELSE LET tests_to_run ==
                         walk_recursively(g, bd.output_file_generators[target.arg],
                                          "Outgoing", "tests", {})
                 IN [err |-> "ok",
                     to |-> WalkIncomingFromEach(g, SetToSeq(tests_to_run), to)]
      [] target.kind = "AllTests" ->
            [err |-> "ok",
             to |-> WalkIncomingFromEach(g, bd.test_command_node_index, to)]

\* A loop over the targets that passes over the targets that fail.
ResolveTargetsPassingErrors(bd, ts) ==
    LET RECURSIVE Each(_, _)
        Each(k, to) ==
            IF k > Len(ts) THEN [err |-> "ok", to |-> to]
            ELSE LET r == add_target_commands(bd, ts[k], to)
                 IN Each(k + 1, r.to)
    IN Each(1, {})

\* The loop at the head of build(): every target in order into one set, the
\* first error ending it.
ResolveTargets(bd, ts) ==
    LET RECURSIVE Each(_, _)
        Each(k, to) ==
            IF k > Len(ts) THEN [err |-> "ok", to |-> to]
            ELSE LET r == add_target_commands(bd, ts[k], to)
                 IN IF r.err # "ok" THEN r ELSE Each(k + 1, r.to)
    IN Each(1, {})


-----------------------------------------------------------------------------
(* The filesystem as fs::metadata and Metadata::modified see it. *)

\* fs::metadata fails.
Missing == [kind |-> "missing", mtime |-> 0]

\* fs::metadata succeeds and Metadata::modified fails.
NoMtime == [kind |-> "nomtime", mtime |-> 0]

\* A file whose mtime is `t` seconds after SystemTime::UNIX_EPOCH.
FileAt(t) == [kind |-> "file", mtime |-> t]

Stat(files, path) == IF path \in DOMAIN files THEN files[path] ELSE Missing

\* SystemTime::UNIX_EPOCH, the initial max_output_mtime.
UNIX_EPOCH == 0

\* The time at which the children of this run write: after every initial mtime.
WriteTime == MaxMtime + 1

\* rerun_necessary
rerun_necessary(command, files) ==
    LET RECURSIVE MaxOutput(_, _)
        MaxOutput(k, max_output_mtime) ==
            IF k > Len(command.outputs) THEN max_output_mtime
            ELSE MaxOutput(k + 1, Max2(max_output_mtime,
                                       Stat(files, command.outputs[k]).mtime))
        max_output_mtime == MaxOutput(1, UNIX_EPOCH)
    IN \/ \E k \in DOMAIN command.outputs : Stat(files, command.outputs[k]).kind # "file"
       \/ \E k \in DOMAIN command.inputs : Stat(files, command.inputs[k]).kind # "file"
       \/ \E k \in DOMAIN command.inputs :
              Stat(files, command.inputs[k]).mtime > max_output_mtime

\* What a spawned child may do.  c.output() fails ("spawn_error"), or the
\* child exits with a failure or a success status; a child that succeeds may
\* have written its declared outputs (after a failure the run reads the
\* filesystem no more).
ChildOutcomes ==
    {[status |-> "spawn_error", wrote |-> FALSE],
     [status |-> "exit_failure", wrote |-> FALSE],
     [status |-> "success", wrote |-> FALSE],
     [status |-> "success", wrote |-> TRUE]}

\* The filesystem after a child of a command with these outputs.
AfterChild(files, outputs, outcome) ==
    IF outcome.wrote
    THEN [p \in DOMAIN files |-> IF p \in Range(outputs) THEN FileAt(WriteTime) ELSE files[p]]
    ELSE files

\* The words the sandbox command line is made of, as character sequences
\* like the paths.
SandboxProgram == <<"s", "a", "n", "d", "b", "o", "x">>

SandboxFlag == <<"-", "-", "s", "a", "n", "d", "b", "o", "x">>

AllowReadFlag == <<"-", "-", "a", "l", "l", "o", "w", "-", "r", "e", "a", "d">>

AllowWriteFlag == <<"-", "-", "a", "l", "l", "o", "w", "-", "w", "r", "i", "t", "e">>

DashDash == <<"-", "-">>

\* The Command `c` of run_command_if_necessary when c.output() is called, as
\* the argv of the child: the program, then every arg in the order added.
\* The command is not empty.
BuildChildArgv(command, sandboxed_dirs, nosandbox) ==
    LET c == IF nosandbox
             THEN <<command.command[1]>>
             ELSE <<SandboxProgram, SandboxFlag>> \o sandboxed_dirs
                  \o <<AllowReadFlag>> \o command.inputs
                  \o <<AllowWriteFlag>> \o command.outputs
                  \o <<DashDash>> \o command.command
    IN c \o Tail(command.command)

\* The same for run_test.
TestChildArgv(command, sandboxed_dirs, nosandbox) ==
    LET c == IF nosandbox
             THEN <<command.command[1]>>
             ELSE <<SandboxProgram, SandboxFlag>> \o sandboxed_dirs
                  \o <<AllowReadFlag>> \o command.inputs
                  \o <<DashDash>> \o command.command
    IN c \o Tail(command.command)

\* No child was set up.
NoArgv == <<>>

\* A run_command_if_necessary that returns Ok(()) whatever the exit status.
run_command_any_status(command, sandboxed_dirs, nosandbox, files, outcome) ==
    IF ~rerun_necessary(command, files)
    THEN [err |-> "ok", status |-> "skipped", invoked |-> 0, argv |-> NoArgv, fs |-> files]
    ELSE IF command.command = <<>>
    THEN [err |-> "Command is empty", status |-> "empty", invoked |-> 0,
          argv |-> NoArgv, fs |-> files]
    ELSE IF outcome.status = "spawn_error"
    THEN [err |-> "io error", status |-> outcome.status, invoked |-> 0,
          argv |-> BuildChildArgv(command, sandboxed_dirs, nosandbox), fs |-> files]
    ELSE [err |-> "ok", status |-> outcome.status, invoked |-> 1,
          argv |-> BuildChildArgv(command, sandboxed_dirs, nosandbox),
          fs |-> AfterChild(files, command.outputs, outcome)]

\* run_command_if_necessary: [err, status, invoked, argv, fs].  `invoked` is
\* the number of children that ran, `argv` the command line c.output() was
\* called on.
run_command_if_necessary(command, sandboxed_dirs, nosandbox, files, outcome) ==
    IF ~rerun_necessary(command, files)
    THEN [err |-> "ok", status |-> "skipped", invoked |-> 0, argv |-> NoArgv, fs |-> files]
    ELSE IF command.command = <<>>
    THEN [err |-> "Command is empty", status |-> "empty", invoked |-> 0,
          argv |-> NoArgv, fs |-> files]
    ELSE LET argv == BuildChildArgv(command, sandboxed_dirs, nosandbox) IN
    IF outcome.status = "spawn_error"
    THEN [err |-> "io error", status |-> outcome.status, invoked |-> 0,
          argv |-> argv, fs |-> files]
    ELSE IF outcome.status = "exit_failure"
    THEN [err |-> "Build command failed with exit status", status |-> outcome.status,
          invoked |-> 1, argv |-> argv, fs |-> files]
    ELSE [err |-> "ok", status |-> outcome.status, invoked |-> 1, argv |-> argv,
          fs |-> AfterChild(files, command.outputs, outcome)]

\* run_test: the exit status is returned, not judged.
run_test(command, sandboxed_dirs, nosandbox, files, outcome) ==
    IF command.command = <<>>
    THEN [err |-> "Command is empty", status |-> "empty", invoked |-> 0,
          argv |-> NoArgv, fs |-> files]
    ELSE LET argv == TestChildArgv(command, sandboxed_dirs, nosandbox) IN
    IF outcome.status = "spawn_error"
    THEN [err |-> "io error", status |-> outcome.status, invoked |-> 0,
          argv |-> argv, fs |-> files]
    ELSE [err |-> "ok", status |-> outcome.status, invoked |-> 1, argv |-> argv,
          fs |-> files]

-----------------------------------------------------------------------------
(* BinaryHeap<NodeIndex>, kept as the ascending sequence of its elements. *)

HeapPush(heap, x) ==
    LET below == SelectSeq(heap, LAMBDA y : y <= x)
        above == SelectSeq(heap, LAMBDA y : y > x)
    IN below \o <<x>> \o above

\* A pop that gives the least element.
HeapPeekLeast(heap) == heap[1]

\* BinaryHeap::pop gives the greatest element.
HeapPeek(heap) == heap[Len(heap)]

HeapPop(heap) == SubSeq(heap, 1, Len(heap) - 1)

-----------------------------------------------------------------------------
(* BuildDag::build *)

\* A count of one for any node that has dependencies at all.
DependenciesAsFlag(g, node) == IF Neighbors(g, node, "Incoming") = <<>> THEN 0 ELSE 1

\* neighbors_directed(node, Incoming).count()
Dependencies(g, node) == Len(Neighbors(g, node, "Incoming"))

\* The seeding loop of build(): nodes without dependencies go to the heap,
\* the others into the map with their count.
SeedReady(g, to) ==
    LET RECURSIVE Push(_, _)
        Push(nodes, heap) ==
            IF nodes = <<>> THEN heap
            ELSE Push(Tail(nodes),
                      IF Dependencies(g, Head(nodes)) = 0
                      THEN HeapPush(heap, Head(nodes)) ELSE heap)
    IN Push(SetToSeq(to), <<>>)

SeedRemaining(g, to) ==
    [n \in {m \in to : Dependencies(g, m) # 0} |-> Dependencies(g, n)]

\* A loop over the dependants that counts a dependant once however many
\* edges lead to it.
UnblockOncePerChild(g, node_index, to, remaining0, ready0) ==
    LET children == SetToSeq(Range(Neighbors(g, node_index, "Outgoing")))
        RECURSIVE Each(_, _)
        Each(k, st) ==
            IF k > Len(children) THEN st
            ELSE LET child_index == children[k] IN
                 IF child_index \notin to \/ child_index \notin DOMAIN st.remaining
                 THEN Each(k + 1, st)
                 ELSE IF st.remaining[child_index] - 1 = 0
                 THEN Each(k + 1, [remaining |-> MapRemove(st.remaining, child_index),
                                   ready |-> HeapPush(st.ready, child_index),
                                   panic |-> "ok"])
                 ELSE Each(k + 1, [st EXCEPT !.remaining[child_index] = @ - 1])
    IN Each(1, [remaining |-> remaining0, ready |-> ready0, panic |-> "ok"])

\* The loop over the dependants of a finished node: [remaining, ready, panic].
\* A dependant in commands_to_run must be in the map ("Internal logic error
\* 5" otherwise); its count goes down by one and at zero it moves to the heap.
Unblock(g, node_index, to, remaining0, ready0) ==
    LET children == Neighbors(g, node_index, "Outgoing")
        RECURSIVE Each(_, _)
        Each(k, st) ==
            IF k > Len(children) \/ st.panic # "ok" THEN st
            ELSE LET child_index == children[k] IN
                 IF child_index \notin to THEN Each(k + 1, st)
                 ELSE IF child_index \notin DOMAIN st.remaining
                 THEN [st EXCEPT !.panic = "Internal logic error 5"]
                 ELSE IF st.remaining[child_index] - 1 = 0
                 THEN Each(k + 1, [remaining |-> MapRemove(st.remaining, child_index),
                                   ready |-> HeapPush(st.ready, child_index),
                                   panic |-> "ok"])
                 ELSE Each(k + 1, [st EXCEPT !.remaining[child_index] = @ - 1])
    IN Each(1, [remaining |-> remaining0, ready |-> ready0, panic |-> "ok"])

-----------------------------------------------------------------------------
(* The descriptions, targets and filesystems the runs start from. *)

FileChars == <<"a", "b", "c", "d", "e", "f">>

\* The file paths /a, /b, ...
File(i) == <<"/", FileChars[i]>>

Files == {File(i) : i \in 1..NumFiles}

TestName(i) == <<"t", FileChars[i]>>

TestNames == {TestName(i) : i \in 1..NumTests}

RootDir == <<"/">>

\* The words of the commands.
Tool == <<"t", "o", "o", "l">>

ToolArg == <<"-", "x">>

Argv == <<Tool>>

InputLists(S) == SeqsUpTo(S, MaxInputs)

\* The descriptions of Spec: build command i writes the one file File(i) and
\* reads any list of the other files; every test reads any list of files.
\* The files past File(NumBuild) are source files.
Descriptions ==
    {[commands |-> [i \in 1..NumBuild |->
                       [command |-> Argv, inputs |-> ins[i], outputs |-> <<File(i)>>,
                        working_dir |-> RootDir]],
      tests |-> [t \in TestNames |->
                    [command |-> Argv, inputs |-> tins[t], working_dir |-> RootDir]],
      sandboxed_dirs |-> <<RootDir>>] :
        ins \in {f \in [1..NumBuild -> InputLists(Files)] :
                    \A i \in 1..NumBuild : File(i) \notin Range(f[i])},
        tins \in [TestNames -> InputLists(Files)]}

NoArg == <<>>

\* Every target over the files and test names, and one test name no
\* description has.
Targets ==
    {[kind |-> k, arg |-> f] :
        k \in {"Output", "OutputsThatDependOnFile", "TestsThatDependOnFile"}, f \in Files}
    \cup {[kind |-> "Test", arg |-> t] : t \in TestNames \cup {<<"t", "?">>}}
    \cup {[kind |-> "AllOutputs", arg |-> NoArg], [kind |-> "AllTests", arg |-> NoArg]}

TargetLists == SeqsUpTo(Targets, MaxTargets)

\* The filesystems of Spec: a source file has an mtime in 1..MaxMtime, a
\* file some command writes is absent or has one.
Filesystems ==
    {f \in [Files -> {Missing} \cup {FileAt(t) : t \in 1..MaxMtime}] :
        \A i \in (NumBuild + 1)..NumFiles : f[File(i)] # Missing}

\* No walk is under way.
NoWalk == [starting_node_index |-> 0, direction |-> "Outgoing", func |-> "insert", to |-> {}]

InitProgram ==
    /\ pc = "new"
    /\ args = <<>>
    /\ error = "ok"
    /\ dag = EmptyGraph
    /\ output_file_generators = EmptyMap
    /\ input_file_consumers = EmptyMap
    /\ test_names = <<>>
    /\ build_command_node_index = <<>>
    /\ test_command_node_index = <<>>
    /\ commands_to_run = {}
    /\ command_dependencies_remaining = EmptyMap
    /\ ready_to_run = <<>>
    /\ log = <<>>
    /\ walk = NoWalk
    /\ pending = <<>>
    /\ calls = <<>>

Init ==
    /\ info \in Descriptions
    /\ targets \in TargetLists
    /\ no_sandbox \in BOOLEAN
    /\ fs \in Filesystems
    /\ InitProgram

-----------------------------------------------------------------------------
(* The steps of main(). *)

\* BuildDag::new(&build_info)?
NewDag ==
    /\ pc = "new"
    /\ \E names \in KeyOrders(DOMAIN info.tests) :
          LET bd == BuildDagNew(info, names) IN
          IF bd.err # "ok"
          THEN /\ pc' = "failed"
               /\ error' = bd.err
               /\ UNCHANGED <<dag, output_file_generators, input_file_consumers,
                              test_names, build_command_node_index,
                              test_command_node_index>>
          ELSE /\ pc' = "build"
               /\ error' = "ok"
               /\ dag' = bd.dag
               /\ output_file_generators' = bd.output_file_generators
               /\ input_file_consumers' = bd.input_file_consumers
               /\ test_names' = bd.test_names
               /\ build_command_node_index' = bd.build_command_node_index
               /\ test_command_node_index' = bd.test_command_node_index
    /\ UNCHANGED <<info, args, targets, no_sandbox, fs, commands_to_run,
                   command_dependencies_remaining, ready_to_run, log,
                   walk, pending, calls>>

\* build() up to its loop: the targets are resolved and the heap and the map
\* are seeded (the visualisation is off).
BuildStart ==
    /\ pc = "build"
    /\ LET r == ResolveTargets(Self, targets) IN
       IF r.err # "ok"
       THEN /\ pc' = "failed"
            /\ error' = r.err
            /\ UNCHANGED <<commands_to_run, command_dependencies_remaining, ready_to_run>>
       ELSE /\ pc' = "loop"
            /\ error' = "ok"
            /\ commands_to_run' = r.to
            /\ command_dependencies_remaining' = SeedRemaining(dag, r.to)
            /\ ready_to_run' = SeedReady(dag, r.to)
    /\ UNCHANGED <<info, args, targets, no_sandbox, fs, dag, output_file_generators,
                   input_file_consumers, test_names, build_command_node_index,
                   test_command_node_index, log, walk, pending, calls>>

\* The rest of one iteration once the node's command has returned `r`: an
\* error leaves build(); otherwise the dependants are unblocked.
FinishIteration(node_index, r) ==
    LET u == Unblock(dag, node_index, commands_to_run,
                     command_dependencies_remaining, HeapPop(ready_to_run))
    IN /\ log' = Append(log, [node |-> node_index, status |-> r.status,
                              invoked |-> r.invoked, argv |-> r.argv])
       /\ fs' = r.fs
       /\ IF r.err # "ok"
          THEN /\ pc' = "failed"
               /\ error' = r.err
               /\ ready_to_run' = HeapPop(ready_to_run)
               /\ UNCHANGED command_dependencies_remaining
          ELSE IF u.panic # "ok"
          THEN /\ pc' = "panicked"
               /\ error' = u.panic
               /\ ready_to_run' = u.ready
               /\ command_dependencies_remaining' = u.remaining
          ELSE /\ pc' = "loop"
               /\ error' = "ok"
               /\ ready_to_run' = u.ready
               /\ command_dependencies_remaining' = u.remaining
       /\ UNCHANGED <<info, args, targets, no_sandbox, dag, output_file_generators,
                      input_file_consumers, test_names, build_command_node_index,
                      test_command_node_index, commands_to_run,
                      walk, pending, calls>>

\* One iteration of the loop of build() that pops a build node.
DispatchBuild ==
    /\ pc = "loop"
    /\ ready_to_run # <<>>
    /\ dag.nodes[HeapPeek(ready_to_run)].kind = "build"
    /\ \E outcome \in ChildOutcomes :
          FinishIteration(HeapPeek(ready_to_run),
              run_command_if_necessary(
                  info.commands[dag.nodes[HeapPeek(ready_to_run)].index],
                  info.sandboxed_dirs, no_sandbox, fs, outcome))

\* One iteration of the loop of build() that pops a test node.
DispatchTest ==
    /\ pc = "loop"
    /\ ready_to_run # <<>>
    /\ dag.nodes[HeapPeek(ready_to_run)].kind = "test"
    /\ \E outcome \in ChildOutcomes :
          FinishIteration(HeapPeek(ready_to_run),
              run_test(info.tests[test_names[dag.nodes[HeapPeek(ready_to_run)].index]],
                       info.sandboxed_dirs, no_sandbox, fs, outcome))

\* The heap is empty: the loop ends and the assertion is checked.
LoopExit ==
    /\ pc = "loop"
    /\ ready_to_run = <<>>
    /\ IF DOMAIN command_dependencies_remaining = {}
       THEN pc' = "done" /\ error' = "ok"
       ELSE pc' = "panicked"
            /\ error' = "assertion failed: command_dependencies_remaining.is_empty()"
    /\ UNCHANGED <<info, args, targets, no_sandbox, fs, dag, output_file_generators,
                   input_file_consumers, test_names, build_command_node_index,
                   test_command_node_index, commands_to_run,
                   command_dependencies_remaining, ready_to_run, log,
                   walk, pending, calls>>

Next == NewDag \/ BuildStart \/ DispatchBuild \/ DispatchTest \/ LoopExit

Spec == Init /\ [][Next]_vars


-----------------------------------------------------------------------------
(* Target resolution alone: new() and the head of build(), over target     *)
(* lists of up to MaxTargetsResolve targets.                               *)

InitResolve ==
    /\ info \in Descriptions
    /\ targets \in SeqsUpTo(Targets, MaxTargetsResolve)
    /\ no_sandbox = FALSE
    /\ fs = [f \in Files |-> FileAt(1)]
    /\ InitProgram

NextResolve == NewDag \/ BuildStart

SpecResolve == InitResolve /\ [][NextResolve]_vars

-----------------------------------------------------------------------------
(* BuildDag::new alone, over descriptions whose paths are arbitrary short  *)
(* strings: one path of the build side (an input, an output, the working   *)
(* dir of the command, or the sandboxed dir) and one path of the test (its *)
(* input or its working dir) are drawn from all strings of up to           *)
(* MaxPathLen characters.                                                  *)

PathChars == {"/", ".", "a"}

PathStrings == SeqsUpTo(PathChars, MaxPathLen)

BuildSlots == {"input", "output", "working_dir", "sandboxed_dir"}

TestSlots == {"input", "working_dir"}

PathDescription(slot, p, tslot, q) ==
    [commands |-> <<[command |-> Argv,
                     inputs |-> <<IF slot = "input" THEN p ELSE File(3)>>,
                     outputs |-> <<IF slot = "output" THEN p ELSE File(1)>>,
                     working_dir |-> IF slot = "working_dir" THEN p ELSE RootDir]>>,
     tests |-> [t \in {TestName(1)} |->
                   [command |-> Argv,
                    inputs |-> <<IF tslot = "input" THEN q ELSE File(1)>>,
                    working_dir |-> IF tslot = "working_dir" THEN q ELSE RootDir]],
     sandboxed_dirs |-> <<IF slot = "sandboxed_dir" THEN p ELSE RootDir>>]

InitPath ==
    /\ info \in {PathDescription(slot, p, tslot, q) :
                    slot \in BuildSlots, p \in PathStrings,
                    tslot \in TestSlots, q \in PathStrings}
    /\ targets = <<[kind |-> "AllTests", arg |-> NoArg]>>
    /\ no_sandbox = FALSE
    /\ fs = [f \in Files |-> FileAt(1)]
    /\ InitProgram

NextPath == NewDag

SpecPath == InitPath /\ [][NextPath]_vars

-----------------------------------------------------------------------------
(* One build command run by build(): the description has one build        *)
(* command over any inputs and outputs lists, the target is output_all,   *)
(* and every file is absent, without a readable mtime, or has an mtime    *)
(* from PreEpoch seconds before the epoch to MaxMtime seconds after it.   *)

FileStates ==
    {Missing, NoMtime} \cup {FileAt(t) : t \in (0 - PreEpoch)..MaxMtime}

InitRun ==
    /\ info \in {[commands |-> <<[command |-> Argv, inputs |-> ins, outputs |-> outs,
                                  working_dir |-> RootDir]>>,
                  tests |-> EmptyMap,
                  sandboxed_dirs |-> <<RootDir>>] :
                    ins \in InputLists(Files), outs \in SeqsUpTo(Files, MaxOutputs)}
    /\ targets = <<[kind |-> "AllOutputs", arg |-> NoArg]>>
    /\ no_sandbox = FALSE
    /\ fs \in [Files -> FileStates]
    /\ InitProgram

NextRun == NewDag \/ BuildStart \/ DispatchBuild \/ LoopExit

SpecRun == InitRun /\ [][NextRun]_vars

-----------------------------------------------------------------------------
(* Whole runs over several tests and several targets: NumTestsMulti tests, *)
(* target lists of up to MaxTargetsMulti targets, inputs lists of up to    *)
(* MaxInputsMulti files, on a filesystem where every source file exists    *)
(* and no output does.                                                     *)

TestNamesMulti == {TestName(i) : i \in 1..NumTestsMulti}

DescriptionsMulti ==
    {[commands |-> [i \in 1..NumBuild |->
                       [command |-> Argv, inputs |-> ins[i], outputs |-> <<File(i)>>,
                        working_dir |-> RootDir]],
      tests |-> [t \in TestNamesMulti |->
                    [command |-> Argv, inputs |-> tins[t], working_dir |-> RootDir]],
      sandboxed_dirs |-> <<RootDir>>] :
        ins \in {f \in [1..NumBuild -> SeqsUpTo(Files, MaxInputsMulti)] :
                    \A i \in 1..NumBuild : File(i) \notin Range(f[i])},
        tins \in [TestNamesMulti -> SeqsUpTo(Files, MaxInputsMulti)]}

TargetsMulti ==
    Targets \cup {[kind |-> "Test", arg |-> t] : t \in TestNamesMulti}

InitMulti ==
    /\ info \in DescriptionsMulti
    /\ targets \in SeqsUpTo(TargetsMulti, MaxTargetsMulti)
    /\ no_sandbox = FALSE
    /\ fs = [f \in Files |-> IF \E i \in 1..NumBuild : f = File(i)
                              THEN Missing ELSE FileAt(MaxMtime)]
    /\ InitProgram

NextMulti == NewDag \/ BuildStart \/ DispatchBuild \/ DispatchTest \/ LoopExit

SpecMulti == InitMulti /\ [][NextMulti]_vars

-----------------------------------------------------------------------------
(* BuildDag::new alone, over descriptions whose commands declare any       *)
(* outputs list of up to MaxOutputs paths and any inputs list of up to     *)
(* MaxInputsNew paths: outputs shared by commands, commands that read      *)
(* their own output, cycles, and a path that is not absolute all occur.    *)

RelativeFile == <<"a">>

NewPaths == Files \cup {RelativeFile}

DescriptionsNew ==
    {[commands |-> [i \in 1..NumBuild |->
                       [command |-> Argv, inputs |-> ins[i], outputs |-> outs[i],
                        working_dir |-> RootDir]],
      tests |-> [t \in TestNames |->
                    [command |-> Argv, inputs |-> tins[t], working_dir |-> RootDir]],
      sandboxed_dirs |-> <<RootDir>>] :
        ins \in [1..NumBuild -> SeqsUpTo(NewPaths, MaxInputsNew)],
        outs \in [1..NumBuild -> SeqsUpTo(NewPaths, MaxOutputs)],
        tins \in [TestNames -> SeqsUpTo(NewPaths, MaxInputsNew)]}

InitNew ==
    /\ info \in DescriptionsNew
    /\ targets = <<[kind |-> "AllOutputs", arg |-> NoArg], [kind |-> "AllTests", arg |-> NoArg]>>
    /\ no_sandbox = FALSE
    /\ fs = [f \in Files |-> FileAt(MaxMtime)]
    /\ InitProgram

NextNew == NewDag

SpecNew == InitNew /\ [][NextNew]_vars

-----------------------------------------------------------------------------
(* The command lines of the children: one build command and one test whose *)
(* command is empty or a program name with up to MaxArgs arguments, over   *)
(* several inputs, outputs and sandboxed dirs lists, with and without the  *)
(* sandbox.                                                                *)

CommandLines ==
    {<<>>} \cup {<<Tool>> \o more : more \in SeqsUpTo({ToolArg}, MaxArgs)}

SandboxedDirLists == {<<>>, <<RootDir>>, <<RootDir, File(3)>>}

InitArgv ==
    /\ info \in {[commands |-> <<[command |-> bc, inputs |-> ins, outputs |-> outs,
                                  working_dir |-> RootDir]>>,
                  tests |-> [t \in {TestName(1)} |->
                                [command |-> tc, inputs |-> tins, working_dir |-> RootDir]],
                  sandboxed_dirs |-> dirs] :
                    bc \in CommandLines, tc \in CommandLines,
                    ins \in InputLists({File(2), File(3)}),
                    outs \in {<<>>, <<File(1)>>},
                    tins \in InputLists({File(1), File(3)}),
                    dirs \in SandboxedDirLists}
    /\ targets \in {<<[kind |-> "AllOutputs", arg |-> NoArg]>>,
                    <<[kind |-> "AllTests", arg |-> NoArg]>>}
    /\ no_sandbox \in BOOLEAN
    /\ fs = [f \in Files |-> IF f = File(1) THEN Missing ELSE FileAt(1)]
    /\ InitProgram

NextArgv == NewDag \/ BuildStart \/ DispatchBuild \/ DispatchTest \/ LoopExit

SpecArgv == InitArgv /\ [][NextArgv]_vars

-----------------------------------------------------------------------------
(* Opt::from_args alone: the target strings of the command line are parsed *)
(* one after the other.  A target string is a leading word (one of the six *)
(* kinds, or another word) followed by up to MaxArgLen characters, colons  *)
(* among them.                                                             *)

ArgChars == {":", "a"}

LeadingWords ==
    {OutputAllWord, TestAllWord, OutputWord, TestWord, OutputDependenciesWord,
     TestDependenciesWord, <<>>, <<"a", "l", "l">>}

TargetStrings ==
    {word \o rest : word \in LeadingWords, rest \in SeqsUpTo(ArgChars, MaxArgLen)}

\* structopt parses one target string with Target::from_str; an error ends
\* the process.
ParseTarget ==
    /\ pc = "args"
    /\ args # <<>>
    /\ LET r == from_str(Head(args)) IN
       IF r.err # "ok"
       THEN /\ pc' = "failed"
            /\ error' = r.err
            /\ UNCHANGED <<args, targets>>
       ELSE /\ targets' = Append(targets, r.target)
            /\ args' = Tail(args)
            /\ UNCHANGED <<pc, error>>
    /\ UNCHANGED <<info, no_sandbox, fs, dag, output_file_generators,
                   input_file_consumers, test_names, build_command_node_index,
                   test_command_node_index, commands_to_run,
                   command_dependencies_remaining, ready_to_run, log,
                   walk, pending, calls>>

\* Every target string is parsed: main() goes on to BuildDag::new.
ArgsParsed ==
    /\ pc = "args"
    /\ args = <<>>
    /\ pc' = "new"
    /\ UNCHANGED <<info, args, targets, no_sandbox, fs, error, dag,
                   output_file_generators, input_file_consumers, test_names,
                   build_command_node_index, test_command_node_index,
                   commands_to_run, command_dependencies_remaining, ready_to_run, log,
                   walk, pending, calls>>

InitParse ==
    /\ info \in {d \in Descriptions :
                    /\ \A i \in 1..NumBuild : d.commands[i].inputs = <<>>
                    /\ \A t \in TestNames : d.tests[t].inputs = <<>>}
    /\ args \in SeqsUpTo(TargetStrings, MaxTargetStrings)
    /\ targets = <<>>
    /\ no_sandbox = FALSE
    /\ fs = [f \in Files |-> FileAt(MaxMtime)]
    /\ pc = "args"
    /\ error = "ok"
    /\ dag = EmptyGraph
    /\ output_file_generators = EmptyMap
    /\ input_file_consumers = EmptyMap
    /\ test_names = <<>>
    /\ build_command_node_index = <<>>
    /\ test_command_node_index = <<>>
    /\ commands_to_run = {}
    /\ command_dependencies_remaining = EmptyMap
    /\ ready_to_run = <<>>
    /\ log = <<>>
    /\ walk = NoWalk
    /\ pending = <<>>
    /\ calls = <<>>

NextParse == ParseTarget \/ ArgsParsed

SpecParse == InitParse /\ [][NextParse]_vars

-----------------------------------------------------------------------------
(* Whole runs in which one build command writes two files: the first      *)
(* command writes File(1) and File(2), the second writes File(3) and      *)
(* reads any list of the first command's outputs and the source file      *)
(* File(4); the tests read any list of outputs.  The outputs are all      *)
(* absent or all present.                                                  *)

SourceFile == File(4)

DescriptionsTwoOutputs ==
    {[commands |-> <<[command |-> Argv, inputs |-> <<>>,
                      outputs |-> <<File(1), File(2)>>, working_dir |-> RootDir],
                     [command |-> Argv, inputs |-> ins,
                      outputs |-> <<File(3)>>, working_dir |-> RootDir]>>,
      tests |-> [t \in TestNames |->
                    [command |-> Argv, inputs |-> tins[t], working_dir |-> RootDir]],
      sandboxed_dirs |-> <<RootDir>>] :
        ins \in InputLists({File(1), File(2), SourceFile}),
        tins \in [TestNames -> InputLists({File(1), File(2), File(3)})]}

InitTwoOutputs ==
    /\ info \in DescriptionsTwoOutputs
    /\ targets \in TargetLists
    /\ no_sandbox = FALSE
    /\ fs \in {[f \in {File(1), File(2), File(3), SourceFile} |->
                   IF f = SourceFile THEN FileAt(MaxMtime) ELSE st] :
                st \in {Missing, FileAt(MaxMtime)}}
    /\ InitProgram

NextTwoOutputs == NewDag \/ BuildStart \/ DispatchBuild \/ DispatchTest \/ LoopExit

SpecTwoOutputs == InitTwoOutputs /\ [][NextTwoOutputs]_vars

-----------------------------------------------------------------------------
(* A chain of two build commands run by build(): the first command reads  *)
(* the source file File(3) and writes File(1), the second writes File(2)  *)
(* and reads any list of File(1) and File(3); the target is output_all    *)
(* and every file is in any of the states of FileStates.                  *)

DescriptionsChain ==
    {[commands |-> <<[command |-> Argv, inputs |-> <<File(3)>>,
                      outputs |-> <<File(1)>>, working_dir |-> RootDir],
                     [command |-> Argv, inputs |-> ins,
                      outputs |-> <<File(2)>>, working_dir |-> RootDir]>>,
      tests |-> EmptyMap,
      sandboxed_dirs |-> <<RootDir>>] :
        ins \in InputLists({File(1), File(3)})}

InitChain ==
    /\ info \in DescriptionsChain
    /\ targets = <<[kind |-> "AllOutputs", arg |-> NoArg]>>
    /\ no_sandbox = FALSE
    /\ fs \in [Files -> FileStates]
    /\ InitProgram

NextChain == NewDag \/ BuildStart \/ DispatchBuild \/ LoopExit

SpecChain == InitChain /\ [][NextChain]_vars

-----------------------------------------------------------------------------
(* BuildDag::new over descriptions with two build commands and            *)
(* NumTestsMulti tests whose inputs lists hold up to MaxInputs paths: the *)
(* first command writes File(1) and File(2), the second writes File(3),   *)
(* and File(4) is a source file.  Either command may read the other's     *)
(* output, so cyclic descriptions occur too.                               *)

DescriptionsEdges ==
    {[commands |-> <<[command |-> Argv, inputs |-> ins1,
                      outputs |-> <<File(1), File(2)>>, working_dir |-> RootDir],
                     [command |-> Argv, inputs |-> ins2,
                      outputs |-> <<File(3)>>, working_dir |-> RootDir]>>,
      tests |-> [t \in TestNamesMulti |->
                    [command |-> Argv, inputs |-> tins[t], working_dir |-> RootDir]],
      sandboxed_dirs |-> <<RootDir>>] :
        ins1 \in InputLists({File(3), SourceFile}),
        ins2 \in InputLists({File(1), File(2), SourceFile}),
        tins \in [TestNamesMulti -> InputLists({File(1), File(2), SourceFile})]}

InitEdges ==
    /\ info \in DescriptionsEdges
    /\ targets = <<[kind |-> "AllOutputs", arg |-> NoArg], [kind |-> "AllTests", arg |-> NoArg]>>
    /\ no_sandbox = FALSE
    /\ fs = [f \in Files |-> FileAt(MaxMtime)]
    /\ InitProgram

NextEdges == NewDag

SpecEdges == InitEdges /\ [][NextEdges]_vars

-----------------------------------------------------------------------------
(* walk_recursively alone, one iteration of its loop per step, on every   *)
(* graph of NumWalkNodes build or test nodes and up to MaxWalkEdges edges *)
(* from a node to a node of greater index (parallel edges included), from *)
(* any start node, in either direction, with the closure that inserts     *)
(* into a set (empty or not at the start) or the closure that records     *)
(* test nodes.                                                             *)

WalkNodes == 1..NumWalkNodes

WalkEdges ==
    {e \in [source : WalkNodes, target : WalkNodes, weight : {1}] : e.source < e.target}

WalkGraphs ==
    {[nodes |-> ns, edges |-> es] :
        ns \in [WalkNodes -> {BuildCommandIndex(1), TestCommandIndex(1)}],
        es \in SeqsUpTo(WalkEdges, MaxWalkEdges)}

\* let mut pending = vec![starting_node_index]
InitWalk ==
    /\ info = [commands |-> <<>>, tests |-> EmptyMap, sandboxed_dirs |-> <<>>]
    /\ args = <<>>
    /\ targets = <<>>
    /\ no_sandbox = FALSE
    /\ fs = [f \in Files |-> Missing]
    /\ pc = "walk"
    /\ error = "ok"
    /\ dag \in WalkGraphs
    /\ output_file_generators = EmptyMap
    /\ input_file_consumers = EmptyMap
    /\ test_names = <<>>
    /\ build_command_node_index = <<>>
    /\ test_command_node_index = <<>>
    /\ walk \in [starting_node_index : WalkNodes, direction : {"Incoming", "Outgoing"},
                 func : {"insert", "tests"}, to : SUBSET WalkNodes]
    /\ commands_to_run = walk.to
    /\ command_dependencies_remaining = EmptyMap
    /\ ready_to_run = <<>>
    /\ log = <<>>
    /\ pending = <<walk.starting_node_index>>
    /\ calls = <<>>

\* One iteration of the loop: the last node of the stack is popped, func is
\* called on it (the set it captured is commands_to_run) and the neighbours
\* are pushed if it returned true.
WalkStep ==
    /\ pc = "walk"
    /\ pending # <<>>
    /\ LET node_index == pending[Len(pending)]
           r == CallFunc(dag, walk.func, node_index, commands_to_run)
       IN /\ calls' = Append(calls, [node |-> node_index, go |-> r.go])
          /\ commands_to_run' = r.st
          /\ pending' = PendingAfter(SubSeq(pending, 1, Len(pending) - 1), dag,
                                     node_index, walk.direction, r.go)
    /\ UNCHANGED <<info, args, targets, no_sandbox, fs, pc, error, dag,
                   output_file_generators, input_file_consumers, test_names,
                   build_command_node_index, test_command_node_index,
                   command_dependencies_remaining, ready_to_run, log, walk>>

\* pending.pop() is None: walk_recursively returns.
WalkReturn ==
    /\ pc = "walk"
    /\ pending = <<>>
    /\ pc' = "walked"
    /\ UNCHANGED <<info, args, targets, no_sandbox, fs, error, dag,
                   output_file_generators, input_file_consumers, test_names,
                   build_command_node_index, test_command_node_index, commands_to_run,
                   command_dependencies_remaining, ready_to_run, log, walk, pending,
                   calls>>

NextWalk == WalkStep \/ WalkReturn

\* The loop of walk_recursively runs on until its stack is empty.
SpecWalk == InitWalk /\ [][NextWalk]_vars /\ WF_vars(NextWalk)

-----------------------------------------------------------------------------
(* Vocabulary of the properties. *)

\* build() has resolved the targets without error.
Resolved == pc \in {"loop", "done", "panicked"} \/ log # <<>>

BuildNodes == {n \in DOMAIN dag.nodes : dag.nodes[n].kind = "build"}

TestNodes == {n \in DOMAIN dag.nodes : dag.nodes[n].kind = "test"}

\* S and every node some node of S is reachable from.
WithUpstream(S) ==
    S \cup {n \in DOMAIN dag.nodes : ReachableByEdges(dag, {n}) \cap S # {}}

\* S and every node reachable from a node of S.
WithDownstream(S) == S \cup ReachableByEdges(dag, S)

\* The inputs list of a node's command.
InputsOf(n) ==
    IF dag.nodes[n].kind = "build"
    THEN info.commands[dag.nodes[n].index].inputs
    ELSE info.tests[test_names[dag.nodes[n].index]].inputs

\* The command or test of a node.
CommandOf(n) ==
    IF dag.nodes[n].kind = "build"
    THEN info.commands[dag.nodes[n].index]
    ELSE info.tests[test_names[dag.nodes[n].index]]

\* The nodes dispatched so far, in order.
Dispatched == [i \in DOMAIN log |-> log[i].node]

\* The one target of a resolved single-target run is of this kind.
SingleTarget(kind) == Resolved /\ Len(targets) = 1 /\ targets[1].kind = kind

-----------------------------------------------------------------------------
(* C1 *)

\* C1: for every edge A -> B of the graph with A and B both selected, B is
\* dispatched only after the dispatch of A has completed: wherever B stands
\* in the dispatch order, A stands before it.
C1_ExecutionOrder ==
    \A k \in DOMAIN dag.edges :
        LET e == dag.edges[k] IN
        (e.source \in commands_to_run /\ e.target \in commands_to_run) =>
            \A j \in DOMAIN log :
                log[j].node = e.target => \E i \in 1..(j - 1) : log[i].node = e.source

\* C1 witness: a run has ended in which a node with two different selected
\* producers was dispatched.
C1_Witness ==
    /\ pc = "done"
    /\ \E j, k \in DOMAIN dag.edges :
          /\ dag.edges[j].target = dag.edges[k].target
          /\ dag.edges[j].source # dag.edges[k].source
          /\ {dag.edges[j].source, dag.edges[k].source, dag.edges[k].target}
                \subseteq commands_to_run
          /\ dag.edges[k].target \in Range(Dispatched)

-----------------------------------------------------------------------------
(* C2 *)

\* C2: the selected set is closed under upstream dependency: whenever B is
\* selected and the graph has an edge A -> B, A is selected too.
C2_UpstreamClosed ==
    Resolved =>
        \A k \in DOMAIN dag.edges :
            dag.edges[k].target \in commands_to_run =>
                dag.edges[k].source \in commands_to_run

-----------------------------------------------------------------------------
(* C3 *)

\* C3: when the loop of build() ends because the ready heap is empty, the
\* remaining-dependencies map is empty (the assertion after the loop holds).
C3_PendingEmptyAtLoopEnd ==
    (pc = "loop" /\ ready_to_run = <<>>) => DOMAIN command_dependencies_remaining = {}

-----------------------------------------------------------------------------
(* C4 *)

\* The set C4 describes for output_dependencies:PATH.
OutputDependenciesExpected(path) ==
    LET consumers == {n \in BuildNodes : path \in Range(InputsOf(n))}
    IN WithUpstream(WithDownstream(consumers) \cap BuildNodes)

\* C4: the single target output_dependencies:PATH selects exactly the build
\* nodes that consume PATH, the build nodes downstream of them, and every
\* upstream dependency of all those; no test node.
C4_OutputDependenciesSet ==
    SingleTarget("OutputsThatDependOnFile") =>
        /\ commands_to_run = OutputDependenciesExpected(targets[1].arg)
        /\ commands_to_run \cap TestNodes = {}

-----------------------------------------------------------------------------
(* C5 *)

\* The set C5 describes for test_dependencies:PATH, PATH an output of P.
TestDependenciesExpected(path) ==
    WithUpstream(WithDownstream({output_file_generators[path]}) \cap TestNodes)

\* C5: the single target test_dependencies:PATH, PATH the output of P,
\* selects exactly the test nodes downstream of P and their upstream
\* dependencies.
C5_TestDependenciesSet ==
    SingleTarget("TestsThatDependOnFile") =>
        commands_to_run = TestDependenciesExpected(targets[1].arg)

-----------------------------------------------------------------------------
(* C6 *)

\* Scenario 5 of the specification with /b/src, /b/mid, /b/final named
\* File(3), File(1), File(2): A makes mid from src, B makes final from mid,
\* T reads final.
Scenario5 ==
    /\ NumBuild = 2
    /\ info.commands[1].inputs = <<File(3)>>
    /\ info.commands[2].inputs = <<File(1)>>
    /\ \E t \in DOMAIN info.tests :
          /\ info.tests[t].inputs = <<File(2)>>
          /\ \A u \in DOMAIN info.tests : u # t => info.tests[u].inputs = <<>>
    /\ targets = <<[kind |-> "TestsThatDependOnFile", arg |-> File(3)]>>

\* C6: in scenario 5 the target test_dependencies:/b/src resolves and
\* selects exactly A, B and T.
C6_Scenario5 ==
    (Scenario5 /\ pc \notin {"new", "build"}) =>
        /\ Resolved
        /\ commands_to_run =
              {1, 2} \cup {n \in TestNodes : InputsOf(n) = <<File(2)>>}

-----------------------------------------------------------------------------
(* C7 *)

\* A list in the opposite order.
RECURSIVE Reverse(_)
Reverse(s) == IF s = <<>> THEN <<>> ELSE Append(Reverse(Tail(s)), Head(s))

\* C7: the selected set of a target list is the union of the sets its
\* targets select on their own, and does not depend on the targets' order.
C7_UnionOfTargets ==
    Resolved =>
        /\ commands_to_run =
              UNION {ResolveTargets(Self, <<targets[k]>>).to : k \in DOMAIN targets}
        /\ commands_to_run = ResolveTargets(Self, Reverse(targets)).to


-----------------------------------------------------------------------------
(* C8, C9 *)

\* A path as the specification wants it: absolute, and no piece between its
\* separators is "." or "..".
AbsoluteCanonical(path) ==
    /\ Len(path) > 0
    /\ path[1] = "/"
    /\ \A i \in DOMAIN SplitOnSlash(path, <<>>) :
          SplitOnSlash(path, <<>>)[i] \notin {<<".">>, <<".", ".">>}

PathErrors == {"Path must be absolute", "Path must be canonical (no .. or .)"}

\* The paths of the tests: their inputs and working dirs.
TestPaths ==
    UNION {Range(info.tests[t].inputs) \cup {info.tests[t].working_dir} :
              t \in DOMAIN info.tests}

\* The paths of the build commands and the sandboxed dirs.
BuildPaths ==
    UNION {Range(info.commands[i].inputs) \cup Range(info.commands[i].outputs)
              \cup {info.commands[i].working_dir} : i \in DOMAIN info.commands}
    \cup Range(info.sandboxed_dirs)

\* C8: BuildDag::new fails for every description in which a test's input or
\* working dir is not absolute or has a "." or ".." component.
C8_TestPathsChecked ==
    (pc # "new" /\ \E p \in TestPaths : ~AbsoluteCanonical(p)) => pc = "failed"

\* C9: BuildDag::new fails with a path error, having created no node and no
\* edge, exactly when a path of a build command or a sandboxed dir is not
\* absolute or has a "." or ".." component.
C9_BuildPathsChecked ==
    pc # "new" =>
        /\ (\E p \in BuildPaths : ~AbsoluteCanonical(p))
              <=> (pc = "failed" /\ error \in PathErrors)
        /\ (pc = "failed" /\ error \in PathErrors) => dag = EmptyGraph

-----------------------------------------------------------------------------
(* C10 *)

\* The up-to-date condition as the specification words it, for a command
\* with inputs and outputs: all of them exist with a readable mtime and the
\* greatest input mtime is at most the greatest output mtime.
UpToDateAsSpecified(command, files) ==
    /\ \A k \in DOMAIN command.outputs : Stat(files, command.outputs[k]).kind = "file"
    /\ \A k \in DOMAIN command.inputs : Stat(files, command.inputs[k]).kind = "file"
    /\ \A i \in DOMAIN command.inputs : \E o \in DOMAIN command.outputs :
          Stat(files, command.inputs[i]).mtime <= Stat(files, command.outputs[o]).mtime

\* C10: a dispatched build command that has inputs and outputs, and whose
\* child can be launched, is skipped (no child) if and only if it is up to
\* date as specified, and runs exactly one child otherwise.
C10_UpToDateRule ==
    [][(/\ pc = "loop"
        /\ Len(log') = Len(log) + 1
        /\ dag.nodes[log'[Len(log')].node].kind = "build"
        /\ log'[Len(log')].status # "spawn_error"
        /\ info.commands[dag.nodes[log'[Len(log')].node].index].inputs # <<>>
        /\ info.commands[dag.nodes[log'[Len(log')].node].index].outputs # <<>>)
       => LET command == info.commands[dag.nodes[log'[Len(log')].node].index]
              entry == log'[Len(log')]
          IN IF UpToDateAsSpecified(command, fs)
             THEN entry.invoked = 0 /\ entry.status = "skipped"
             ELSE entry.invoked = 1]_vars

-----------------------------------------------------------------------------
(* C11 *)

\* C11: a dispatched build command with no declared outputs is never
\* skipped as up to date, whatever its inputs list and their mtimes.
C11_NoOutputsAlwaysRun ==
    \A j \in DOMAIN log :
        (dag.nodes[log[j].node].kind = "build" /\ CommandOf(log[j].node).outputs = <<>>)
            => log[j].status # "skipped"

-----------------------------------------------------------------------------
(* C12 *)

\* The argv the specification gives the child of a node.
ArgvAsSpecified(n) ==
    LET command == CommandOf(n) IN
    IF no_sandbox THEN command.command
    ELSE <<SandboxProgram, SandboxFlag>> \o info.sandboxed_dirs
         \o <<AllowReadFlag>> \o command.inputs
         \o (IF dag.nodes[n].kind = "build"
             THEN <<AllowWriteFlag>> \o command.outputs ELSE <<>>)
         \o <<DashDash>> \o command.command

\* C12: the argv of every child is the one specified: in sandbox mode
\* sandbox --sandbox dirs --allow-read inputs [--allow-write outputs] --
\* and the command's words once, without the sandbox the command's words.
C12_ChildArgv ==
    \A j \in DOMAIN log :
        log[j].status \notin {"skipped", "empty"} =>
            log[j].argv = ArgvAsSpecified(log[j].node)

-----------------------------------------------------------------------------
(* C13 *)

\* C13: a build command that exits with a non-zero status ends build() with
\* the error "Build command failed with exit status", and no node is
\* dispatched after it: it is the last dispatch of the run.
C13_BuildFailureAborts ==
    \A j \in DOMAIN log :
        (dag.nodes[log[j].node].kind = "build" /\ log[j].status = "exit_failure") =>
            /\ j = Len(log)
            /\ pc = "failed"
            /\ error = "Build command failed with exit status"

\* C13 witness: a build command has exited with a non-zero status while
\* selected nodes were still to be dispatched.
C13_Witness ==
    /\ log # <<>>
    /\ dag.nodes[log[Len(log)].node].kind = "build"
    /\ log[Len(log)].status = "exit_failure"
    /\ commands_to_run \ Range(Dispatched) # {}
    /\ pc = "failed"

-----------------------------------------------------------------------------
(* C14 *)

\* The run has ended: build() has returned or panicked.
Ended == pc \in {"done", "failed", "panicked"}

\* Entry j of the log is a test that exited with a non-zero status.
TestFailedAt(j) ==
    dag.nodes[log[j].node].kind = "test" /\ log[j].status = "exit_failure"

\* Entry j of the log is a build command that exited with a non-zero status
\* or a process that could not be launched.
FatalAt(j) ==
    \/ log[j].status \in {"spawn_error", "empty"}
    \/ dag.nodes[log[j].node].kind = "build" /\ log[j].status = "exit_failure"

\* C14: a test that exits with a non-zero status does not abort the build:
\* build() does not fail at it, and a run in which a test failed, no build
\* command failed and every process was launched ends with build() returning
\* success and every selected node dispatched.
C14_TestFailureNotFatal ==
    /\ \A j \in DOMAIN log : (TestFailedAt(j) /\ j = Len(log)) => pc # "failed"
    /\ (/\ Ended
        /\ \E j \in DOMAIN log : TestFailedAt(j)
        /\ \A j \in DOMAIN log : ~FatalAt(j))
       => (pc = "done" /\ commands_to_run = Range(Dispatched))

-----------------------------------------------------------------------------
(* C15, C16 *)

DuplicateOutputError == "File is specified as the output of more than one command."

\* Two different build commands declare the same output path.
SharedOutput ==
    \E i, j \in DOMAIN info.commands :
        i # j /\ Range(info.commands[i].outputs) \cap Range(info.commands[j].outputs) # {}

\* Every path new() checks passes its check (new() checks the paths first).
PathsPass == \A p \in BuildPaths : check_path(p) = "ok"

Feeds(i, j) ==
    Range(info.commands[i].outputs) \cap Range(info.commands[j].inputs) # {}

\* The build commands reachable from command i along Feeds, in one or more
\* steps.
FedBy(i) ==
    LET Step(S) == {j \in DOMAIN info.commands : \E h \in S : Feeds(h, j)}
        RECURSIVE Close(_)
        Close(S) == LET T == S \cup Step(S) IN IF T = S THEN S ELSE Close(T)
    IN Close(Step({i}))

\* The producer-to-consumer graph of the description has a directed cycle
\* (tests produce nothing, so a cycle runs through build commands only).
ProducerCycle == \E i \in DOMAIN info.commands : i \in FedBy(i)

\* Some path is declared as an output twice (new() checks this before the
\* cycles).
OutputDeclaredTwice ==
    \/ SharedOutput
    \/ \E c \in DOMAIN info.commands :
          Cardinality(Range(info.commands[c].outputs)) # Len(info.commands[c].outputs)

-----------------------------------------------------------------------------
(* C17 *)

\* The build node of the command that declares `path` as an output.
ProducerOf(path) ==
    CHOOSE n \in BuildNodes : path \in Range(CommandOf(n).outputs)

\* The test node of the test named `name`.
TestNodeOf(name) ==
    CHOOSE n \in TestNodes : test_names[dag.nodes[n].index] = name

\* C17: the single target output:PATH selects exactly the build node that
\* produces PATH and every node it is reachable from; the single target
\* test:NAME selects exactly the test node named NAME and every node it is
\* reachable from.
C17_OutputAndTestTargets ==
    /\ SingleTarget("Output") =>
          commands_to_run = WithUpstream({ProducerOf(targets[1].arg)})
    /\ SingleTarget("Test") =>
          commands_to_run = WithUpstream({TestNodeOf(targets[1].arg)})

\* C17 witness: the target output:PATH has selected the producer of PATH and
\* a producer upstream of it, and has left out a test that reads PATH.
C17_Witness ==
    /\ SingleTarget("Output")
    /\ Cardinality(commands_to_run) = 2
    /\ \E n \in TestNodes : targets[1].arg \in Range(InputsOf(n)) /\ n \notin commands_to_run

-----------------------------------------------------------------------------
(* C18 *)

\* C18: the single target output_all selects exactly the build nodes; in
\* such a run no test is ever dispatched, the run does not panic, and when
\* build() returns success every build command has been dispatched.
C18_OutputAll ==
    SingleTarget("AllOutputs") =>
        /\ commands_to_run = BuildNodes
        /\ Range(Dispatched) \cap TestNodes = {}
        /\ pc # "panicked"
        /\ pc = "done" => Range(Dispatched) = BuildNodes

\* C18 witness: a run with the target output_all has ended with both build
\* commands dispatched, in a description with a test all of whose inputs
\* the build commands produce.
C18_Witness ==
    /\ SingleTarget("AllOutputs")
    /\ pc = "done"
    /\ Cardinality(Range(Dispatched)) = NumBuild
    /\ \E n \in TestNodes :
          /\ InputsOf(n) # <<>>
          /\ Range(InputsOf(n)) \subseteq DOMAIN output_file_generators

-----------------------------------------------------------------------------
(* C19 *)

\* C19: the single target test_all selects exactly the test nodes and every
\* node a test node is reachable from; a build node from which no test node
\* is reachable is not selected.
C19_TestAll ==
    SingleTarget("AllTests") =>
        /\ commands_to_run = WithUpstream(TestNodes)
        /\ \A n \in BuildNodes :
              ReachableByEdges(dag, {n}) \cap TestNodes = {} => n \notin commands_to_run

\* C19 witness: test_all has selected two tests and a build command one of
\* them depends on, and has left out a build command no test depends on.
C19_Witness ==
    /\ SingleTarget("AllTests")
    /\ Cardinality(TestNodes) >= 2
    /\ TestNodes \subseteq commands_to_run
    /\ BuildNodes \cap commands_to_run # {}
    /\ BuildNodes \ commands_to_run # {}

-----------------------------------------------------------------------------
(* C20 *)

\* The lookup of a target fails, as the specification has it: output:PATH
\* or test_dependencies:PATH with PATH the output of no command, test:NAME
\* with NAME no test of the description, output_dependencies:PATH with PATH
\* an input of no command or test.
LookupFails(target) ==
    CASE target.kind \in {"Output", "TestsThatDependOnFile"} ->
            \A i \in DOMAIN info.commands : target.arg \notin Range(info.commands[i].outputs)
      [] target.kind = "Test" -> target.arg \notin DOMAIN info.tests
      [] target.kind = "OutputsThatDependOnFile" ->
            /\ \A i \in DOMAIN info.commands : target.arg \notin Range(info.commands[i].inputs)
            /\ \A t \in DOMAIN info.tests : target.arg \notin Range(info.tests[t].inputs)
      [] OTHER -> FALSE

LookupErrors == {"No command generates output", "No command use file", "Test not found"}

\* C20: when the lookup of some target of the list fails, build() returns
\* the lookup's error and no command is dispatched at all, whatever the
\* other targets of the list are; and build() returns such an error only
\* then.
C20_LookupFailure ==
    (pc \notin {"new", "build"} /\ dag # EmptyGraph) =>
        /\ (\E k \in DOMAIN targets : LookupFails(targets[k]))
              => (pc = "failed" /\ error \in LookupErrors /\ log = <<>>)
        /\ (pc = "failed" /\ error \in LookupErrors)
              => \E k \in DOMAIN targets : LookupFails(targets[k])

\* C20 witness: build() has failed on a list whose first target resolves on
\* its own to a set that is not empty and whose second target's lookup fails.
C20_Witness ==
    /\ pc = "failed"
    /\ dag # EmptyGraph
    /\ Len(targets) = 2
    /\ ~LookupFails(targets[1])
    /\ ResolveTargets(Self, <<targets[1]>>).to # {}
    /\ LookupFails(targets[2])

-----------------------------------------------------------------------------
(* C21 *)

\* The position of the first colon of a string, 0 when it has none.
FirstColon(s) ==
    IF \E i \in DOMAIN s : s[i] = ":"
    THEN CHOOSE i \in DOMAIN s : s[i] = ":" /\ \A j \in 1..(i - 1) : s[j] # ":"
    ELSE 0

\* The kind of a target string: what stands before its first colon, the
\* whole string when it has no colon.
KindOf(s) == IF FirstColon(s) = 0 THEN s ELSE SubSeq(s, 1, FirstColon(s) - 1)

\* The argument of a target string: what stands after its first colon,
\* empty when it has no colon.
ArgOf(s) == IF FirstColon(s) = 0 THEN <<>> ELSE SubSeq(s, FirstColon(s) + 1, Len(s))

\* The variant of each kind that carries an argument.
VariantOf(kind) ==
    CASE kind = OutputWord -> "Output"
      [] kind = TestWord -> "Test"
      [] kind = OutputDependenciesWord -> "OutputsThatDependOnFile"
      [] kind = TestDependenciesWord -> "TestsThatDependOnFile"

\* The step has parsed the string s into this target.
ParsedInto(target) ==
    pc' = "args" /\ targets' = Append(targets, target) /\ args' = Tail(args)

\* C21: every step that parses a target string s splits it at its first
\* colon only (no colon: the whole string is the kind, the argument empty);
\* the kinds output, test, output_dependencies and test_dependencies give
\* their variants with the argument, the bare strings output_all and
\* test_all give AllOutputs and AllTests, and every other kind is rejected
\* with an error.
C21_TargetParsing ==
    [][(pc = "args" /\ args # <<>>) =>
        LET s == Head(args) IN
        /\ KindOf(s) \in {OutputWord, TestWord, OutputDependenciesWord, TestDependenciesWord}
              => ParsedInto([kind |-> VariantOf(KindOf(s)), arg |-> ArgOf(s)])
        /\ s = OutputAllWord => ParsedInto([kind |-> "AllOutputs", arg |-> <<>>])
        /\ s = TestAllWord => ParsedInto([kind |-> "AllTests", arg |-> <<>>])
        /\ KindOf(s) \notin {OutputWord, TestWord, OutputDependenciesWord,
                             TestDependenciesWord, OutputAllWord, TestAllWord}
              => (pc' = "failed" /\ error' = "Unknown option" /\ targets' = targets)]_vars

\* C21 witness: a target string with two colons has been parsed into the
\* Output variant whose argument holds the second colon.
C21_Witness ==
    /\ pc \in {"args", "new"}
    /\ args = <<>>
    /\ targets = <<[kind |-> "Output", arg |-> <<"a", ":", "a">>]>>

-----------------------------------------------------------------------------
(* C22 *)

\* The loop of build() has ended or build() has been left.
LoopOver == Ended \/ (pc = "loop" /\ ready_to_run = <<>>)

\* C22: no node outside the selected set is dispatched and no node is
\* dispatched twice; and when no build command has failed and every process
\* was launched, the loop ends with every selected node dispatched and
\* build() does not panic.
C22_EverySelectedDispatchedOnce ==
    /\ \A j \in DOMAIN log : log[j].node \in commands_to_run
    /\ \A i, j \in DOMAIN log : log[i].node = log[j].node => i = j
    /\ (Resolved /\ LoopOver /\ \A j \in DOMAIN log : ~FatalAt(j))
          => (pc # "panicked" /\ commands_to_run = Range(Dispatched))

-----------------------------------------------------------------------------
(* C23 *)

\* The nodes pushed on the ready heap so far: those on it and those popped.
Pushed == Range(ready_to_run) \cup Range(Dispatched)

\* The number of in-edges of n, parallel edges counted one by one, whose
\* source has not been dispatched.
InEdgesPending(n) ==
    Cardinality({k \in DOMAIN dag.edges :
                    dag.edges[k].target = n /\ dag.edges[k].source \notin Range(Dispatched)})

\* C23: between the iterations of the loop of build(), every selected node
\* not yet pushed on the ready heap has an entry in the pending map, of at
\* least 1 and equal to the number of its in-edges whose source has not been
\* dispatched; no entry of the map is below 1 and the decrement never looks
\* up a node the map does not hold.
C23_PendingCounts ==
    /\ pc = "loop" =>
          \A n \in commands_to_run \ Pushed :
              /\ n \in DOMAIN command_dependencies_remaining
              /\ command_dependencies_remaining[n] >= 1
              /\ command_dependencies_remaining[n] = InEdgesPending(n)
    /\ \A n \in DOMAIN command_dependencies_remaining :
          command_dependencies_remaining[n] >= 1
    /\ error # "Internal logic error 5"

\* C23 witness: a consumer that reads two different files of one selected
\* producer has been dispatched after it.
C23_Witness ==
    /\ pc = "loop"
    /\ \E j, k \in DOMAIN dag.edges :
          /\ dag.edges[j].source = dag.edges[k].source
          /\ dag.edges[j].target = dag.edges[k].target
          /\ InputsOf(dag.edges[j].target)[dag.edges[j].weight]
                # InputsOf(dag.edges[k].target)[dag.edges[k].weight]
          /\ {dag.edges[j].source, dag.edges[j].target} \subseteq Range(Dispatched)

-----------------------------------------------------------------------------
(* C24 *)

\* The file `path` has a readable mtime greater than the mtime of every
\* output of `command` that has one.
NewerThanOutputs(path, command, files) ==
    /\ Stat(files, path).kind = "file"
    /\ \A o \in DOMAIN command.outputs :
          Stat(files, command.outputs[o]).kind = "file"
              => Stat(files, path).mtime > Stat(files, command.outputs[o]).mtime

\* Node A ran a child in this run.
ExecutedInRun(A) == \E j \in DOMAIN log : log[j].node = A /\ log[j].invoked = 1

\* C24: when a build node B with outputs is dispatched, every selected
\* predecessor of B has been dispatched; and if some selected predecessor A
\* was executed in this run and the input of B that A writes has, at that
\* moment, an mtime greater than the mtime of every output of B, then B is
\* not skipped as up to date.
C24_RebuildPropagation ==
    [][(/\ pc = "loop"
        /\ Len(log') = Len(log) + 1
        /\ dag.nodes[log'[Len(log')].node].kind = "build"
        /\ CommandOf(log'[Len(log')].node).outputs # <<>>)
       => LET B == log'[Len(log')].node IN
          /\ \A k \in DOMAIN dag.edges :
                (dag.edges[k].target = B /\ dag.edges[k].source \in commands_to_run)
                    => dag.edges[k].source \in Range(Dispatched)
          /\ (\E k \in DOMAIN dag.edges :
                 /\ dag.edges[k].target = B
                 /\ dag.edges[k].source \in commands_to_run
                 /\ ExecutedInRun(dag.edges[k].source)
                 /\ NewerThanOutputs(InputsOf(B)[dag.edges[k].weight], CommandOf(B), fs))
             => log'[Len(log')].status # "skipped"]_vars

-----------------------------------------------------------------------------
(* C25 *)

\* C25: at every iteration of the loop of build(), the node dispatched is a
\* node of the ready heap and no node of the ready heap has a greater index.
C25_DispatchPriority ==
    [][(pc = "loop" /\ Len(log') = Len(log) + 1)
       => /\ log'[Len(log')].node \in Range(ready_to_run)
          /\ \A n \in Range(ready_to_run) : n <= log'[Len(log')].node]_vars

\* C25 witness: the first node dispatched was popped while a node of lesser
\* index, ready from the start, was on the heap with it.
C25_Witness ==
    /\ pc = "loop"
    /\ Len(log) = 1
    /\ \E n \in Range(ready_to_run) : Dependencies(dag, n) = 0 /\ n < log[1].node

-----------------------------------------------------------------------------
(* C26 *)

\* BuildDag::new has succeeded.
Constructed == pc # "new" /\ dag # EmptyGraph

\* The number of edges from P to C tagged i.
EdgeCount(P, C, i) ==
    Cardinality({k \in DOMAIN dag.edges :
                    dag.edges[k] = [source |-> P, target |-> C, weight |-> i]})

\* Position i of C's inputs list holds a declared output of build command P.
ReadsOutputOf(C, i, P) ==
    /\ P \in DOMAIN info.commands
    /\ InputsOf(C)[i] \in Range(info.commands[P].outputs)

\* C26: after a successful new(), build command i is node i, the test nodes
\* follow the build nodes (one per test), and the edges are exactly one edge
\* P -> C tagged i for every node C and every position i of C's inputs list
\* that holds a declared output of build command P: an input no command
\* writes gives no edge, and no edge starts at a test node.
C26_EdgeConstruction ==
    Constructed =>
        /\ Len(dag.nodes) = Len(info.commands) + Cardinality(DOMAIN info.tests)
        /\ \A i \in DOMAIN info.commands : dag.nodes[i] = BuildCommandIndex(i)
        /\ \A n \in (Len(info.commands) + 1)..Len(dag.nodes) :
              dag.nodes[n] = TestCommandIndex(n - Len(info.commands))
        /\ Range(test_names) = DOMAIN info.tests
        /\ \A k \in DOMAIN dag.edges :
              /\ dag.edges[k].source \in DOMAIN dag.nodes
              /\ dag.edges[k].target \in DOMAIN dag.nodes
              /\ dag.edges[k].weight \in DOMAIN InputsOf(dag.edges[k].target)
              /\ dag.nodes[dag.edges[k].source].kind # "test"
        /\ \A P, C \in DOMAIN dag.nodes : \A i \in DOMAIN InputsOf(C) :
              EdgeCount(P, C, i) = IF ReadsOutputOf(C, i, P) THEN 1 ELSE 0

\* C26 witness: new() has succeeded on a description in which a test reads
\* two different outputs of one build command and a build command reads a
\* source file.
C26_Witness ==
    /\ Constructed
    /\ \E C \in TestNodes : \E P \in BuildNodes :
          /\ Len(InputsOf(C)) = 2
          /\ InputsOf(C)[1] # InputsOf(C)[2]
          /\ ReadsOutputOf(C, 1, P) /\ ReadsOutputOf(C, 2, P)
    /\ \E B \in BuildNodes : \E i \in DOMAIN InputsOf(B) :
          \A P \in BuildNodes : ~ReadsOutputOf(B, i, P)

-----------------------------------------------------------------------------
(* C27 *)

\* The start node of the walk and every node reachable from it in the
\* direction of the walk.
WalkReachable ==
    {walk.starting_node_index} \cup
    IF walk.direction = "Outgoing"
    THEN ReachableByEdges(dag, {walk.starting_node_index})
    ELSE {n \in DOMAIN dag.nodes : walk.starting_node_index \in ReachableByEdges(dag, {n})}

\* The calls of func on node n that returned true.
TrueCalls(n) == {i \in DOMAIN calls : calls[i].node = n /\ calls[i].go}

\* The closure is "insert into the set and return whether the insert was
\* new" and the set was empty when the walk started.
InsertFromEmpty == walk.func = "insert" /\ walk.to = {}

\* What holds of the calls made so far: the first call is on the start node,
\* and if it returned false there is no other call; and once a walk with the
\* inserting closure from an empty set has returned, func has returned true
\* exactly once for every node reachable from the start node, never for
\* another node, and the set is the reachable set, the start node included.
WalkCalls ==
    /\ calls # <<>> => calls[1].node = walk.starting_node_index
    /\ (calls # <<>> /\ ~calls[1].go) => (Len(calls) = 1 /\ pending = <<>>)
    /\ (pc = "walked" /\ InsertFromEmpty) =>
          /\ \A n \in DOMAIN dag.nodes :
                Cardinality(TrueCalls(n)) = IF n \in WalkReachable THEN 1 ELSE 0
          /\ commands_to_run = WalkReachable

\* A call of func that returned false pushes nothing on the stack left by
\* the pop; one that returned true pushes the neighbours of the node in the
\* direction of the walk.
WalkPushes ==
    calls' # calls =>
        LET rest == SubSeq(pending, 1, Len(pending) - 1)
            call == calls'[Len(calls')]
        IN /\ call.node = pending[Len(pending)]
           /\ ~call.go => pending' = rest
           /\ call.go => pending' = rest \o Neighbors(dag, call.node, walk.direction)

\* C27: walk_recursively calls func first on the start node and, if that
\* call returns false, on no other node; it pushes the neighbours of a node
\* only when func returned true for it; and on an acyclic graph, with the
\* closure that inserts into an initially empty set and returns whether the
\* insert was new, it terminates, func returns true exactly once for every
\* node reachable from the start node in the direction of the walk, and the
\* resulting set is that reachable set, the start node included.
C27_Walker ==
    /\ []WalkCalls
    /\ [][WalkPushes]_vars
    /\ InsertFromEmpty => <>(pc = "walked")

\* C27 witness: a walk with the inserting closure from an empty set has
\* returned after reaching every node of the graph, one of them over two
\* paths, so that one call of func returned false.
C27_Witness ==
    /\ pc = "walked"
    /\ InsertFromEmpty
    /\ WalkReachable = DOMAIN dag.nodes
    /\ \E i \in DOMAIN calls : ~calls[i].go

=============================================================================
